---------------------------- MODULE Spec2Model ----------------------------
(***************************************************************************)
(* Model of the music-theory engine of Chord_Constructor (src/tools.py):   *)
(* the ChordGenerator object, its constructor and get_chords, with the     *)
(* helper functions _get_mode_scale, _get_chrom_and_major_scale,           *)
(* _construct_chord_dict and _get_chord_positions.                         *)
(*                                                                         *)
(* Python strings are TLA+ strings, Python lists and numpy arrays are      *)
(* sequences (1-based here, 0-based in the source: an index i of the       *)
(* source is i+1 in a sequence, positions returned by Index are kept       *)
(* 0-based as in the source).  A dict is a function from its keys; the     *)
(* ordered scan of chord_names_dict.items() is a sequence of pairs.        *)
(***************************************************************************)
EXTENDS Integers, Sequences, FiniteSets, TLC

VARIABLES
    constructed,     \* TRUE iff __init__ returned an object
    key,             \* self.key
    mode,            \* self.mode
    mode_chromatic,  \* self.mode_chromatic
    mode_scale,      \* self.mode_scale
    chords_dict,     \* self.chords_dict
    chord_length,    \* argument of the most recent get_chords call
    err,             \* exception raised by the most recent call, or "none"
    mode_is_literal, \* TRUE iff church_mode is the very str object 'lydian' of line 28
    calls            \* number of get_chords calls made on the object

vars == <<constructed, key, mode, mode_chromatic, mode_scale, chords_dict,
          chord_length, err, mode_is_literal, calls>>

\* Number of get_chords calls explored on one object.
MaxCalls == 2

-----------------------------------------------------------------------------
(* Python / numpy primitives *)

\* list(f): the elements of f as a list value (a tuple, built once)
List(f) == <<>> \o f

\* x in seq
Has(seq, x) == \E i \in 1..Len(seq) : seq[i] = x

\* seq.index(x): 0-based position of the first occurrence (x in seq)
Index(seq, x) == (CHOOSE i \in 1..Len(seq) :
                     seq[i] = x /\ \A j \in 1..(i-1) : seq[j] # x) - 1

\* np.roll(seq, k): element at 0-based i moves to (i + k) mod n
Roll(seq, k) == List([j \in 1..Len(seq) |-> seq[((j - 1 - k) % Len(seq)) + 1]])

\* np.cumsum(seq)
RECURSIVE SumTo(_, _)
SumTo(seq, n) == IF n = 0 THEN 0 ELSE SumTo(seq, n - 1) + seq[n]
CumSum(seq) == List([i \in 1..Len(seq) |-> SumTo(seq, i)])

\* seq[positions] with a list of 0-based positions (numpy fancy indexing)
Take(seq, positions) == List([i \in 1..Len(positions) |-> seq[positions[i] + 1]])

\* sub in s, for strings
Contains(s, sub) ==
    \E i \in 1..(Len(s) - Len(sub) + 1) : SubSeq(s, i, i + Len(sub) - 1) = sub

\* s.split('-')
RECURSIVE SplitFrom(_, _, _)
SplitFrom(s, start, i) ==
    IF i > Len(s) THEN <<SubSeq(s, start, Len(s))>>
    ELSE IF SubSeq(s, i, i) = "-"
         THEN <<SubSeq(s, start, i - 1)>> \o SplitFrom(s, i + 1, i + 1)
         ELSE SplitFrom(s, start, i + 1)
Split(s) == SplitFrom(s, 1, 1)

\* Mutant of Update: a key already in the dict keeps its first value.
Update_first(d, k, v) ==
    [x \in DOMAIN d \cup {k} |-> IF x \in DOMAIN d THEN d[x] ELSE v]

\* d.update({k: v})
Update(d, k, v) == [x \in DOMAIN d \cup {k} |-> IF x = k THEN v ELSE d[x]]

\* the value None of self.chords_dict (no dict has the key "None")
None == [None |-> TRUE]

-----------------------------------------------------------------------------
(* Tables of ChordGenerator.__init__ *)

chromatic_sharps == <<"C", "C#", "D", "D#", "E", "F", "F#", "G", "G#", "A", "A#", "B">>
chromatic_flats == <<"C", "Db", "D", "Eb", "E", "F", "Gb", "G", "Ab", "A", "Bb", "B">>

major_scale_dict ==
    [C  |-> <<"C", "D", "E", "F", "G", "A", "B">>,
     Db |-> <<"Db", "Eb", "F", "Gb", "Ab", "Bb", "C">>,
     D  |-> <<"D", "E", "F#", "G", "A", "B", "C#">>,
     Eb |-> <<"Eb", "F", "G", "Ab", "Bb", "C", "D">>,
     E  |-> <<"E", "F#", "G#", "A", "B", "C#", "D#">>,
     F  |-> <<"F", "G", "A", "Bb", "C", "D", "E">>,
     Gb |-> <<"Gb", "Ab", "Bb", "Cb", "Db", "Eb", "F">>,
     G  |-> <<"G", "A", "B", "C", "D", "E", "F#">>,
     Ab |-> <<"Ab", "Bb", "C", "Db", "Eb", "F", "G">>,
     A  |-> <<"A", "B", "C#", "D", "E", "F#", "G#">>,
     Bb |-> <<"Bb", "C", "D", "Eb", "F", "G", "A">>,
     B  |-> <<"B", "C#", "D#", "E", "F#", "G#", "A#">>,
     Cb |-> <<"Cb", "Db", "Eb", "Fb", "Gb", "Ab", "Bb">>]
    @@ ("C#" :> <<"C#", "D#", "E#", "F#", "G#", "A#", "B#">>)
    @@ ("F#" :> <<"F#", "G#", "A#", "B", "C#", "D#", "E#">>)

\* Mutant of chord_names_dict: the half-diminished seventh is entered a second
\* time under its other name.
chord_names_dict_synonym ==
    << <<"Major", <<0, 0, 0>> >>,
       <<"Minor", <<0, -1, 0>> >>,
       <<"Diminished", <<0, -1, -1>> >>,
       <<"Augmented", <<0, 0, 1>> >>,
       <<"Suspended 4th", <<0, 1, 0>> >>,
       <<"Suspended 2nd", <<0, -2, 0>> >>,
       <<"Dominant 7th", <<0, 0, 0, -1>> >>,
       <<"Minor 7th", <<0, -1, 0, -1>> >>,
       <<"Major 7th", <<0, 0, 0, 0>> >>,
       <<"Diminished 7th", <<0, -1, -1, -2>> >>,
       <<"Half Dim 7th", <<0, -1, -1, -1>> >>,
       <<"6th", <<0, 0, 0, 0>> >>,
       <<"Minor 6th", <<0, -1, 0, 0>> >>,
       <<"Added 9th", <<0, 0, 0, 0>> >>,
       <<"7th sharp 5", <<0, 0, 1, -1>> >>,
       <<"7th flat 5", <<0, 0, -1, -1>> >>,
       <<"9th", <<0, 0, 0, -1, 0>> >>,
       <<"Minor 9th", <<0, -1, 0, -1, 0>> >>,
       <<"Major 9th", <<0, 0, 0, 0, 0>> >>,
       <<"7th sharp 9", <<0, 0, 0, -1, 1>> >>,
       <<"7th flat 9", <<0, 0, 0, -1, -1>> >>,
       <<"11th", <<0, 0, 0, -1, 0, 0>> >>,
       <<"Minor 11th", <<0, -1, 0, -1, 0, 0>> >>,
       <<"7th sharp 11th", <<0, 0, 0, -1, 0, 1>> >>,
       <<"13th", <<0, 0, 0, -1, 0, 0, 0>> >>,
       <<"Minor 13th", <<0, -1, 0, -1, 0, 0, 0>> >>,
       <<"Minor 7th flat 5", <<0, -1, -1, -1>> >> >>

\* chord_names_dict.items(), in insertion order
chord_names_dict ==
    << <<"Major", <<0, 0, 0>> >>,
       <<"Minor", <<0, -1, 0>> >>,
       <<"Diminished", <<0, -1, -1>> >>,
       <<"Augmented", <<0, 0, 1>> >>,
       <<"Suspended 4th", <<0, 1, 0>> >>,
       <<"Suspended 2nd", <<0, -2, 0>> >>,
       <<"Dominant 7th", <<0, 0, 0, -1>> >>,
       <<"Minor 7th", <<0, -1, 0, -1>> >>,
       <<"Major 7th", <<0, 0, 0, 0>> >>,
       <<"Diminished 7th", <<0, -1, -1, -2>> >>,
       <<"Half Dim 7th", <<0, -1, -1, -1>> >>,
       <<"6th", <<0, 0, 0, 0>> >>,
       <<"Minor 6th", <<0, -1, 0, 0>> >>,
       <<"Added 9th", <<0, 0, 0, 0>> >>,
       <<"7th sharp 5", <<0, 0, 1, -1>> >>,
       <<"7th flat 5", <<0, 0, -1, -1>> >>,
       <<"9th", <<0, 0, 0, -1, 0>> >>,
       <<"Minor 9th", <<0, -1, 0, -1, 0>> >>,
       <<"Major 9th", <<0, 0, 0, 0, 0>> >>,
       <<"7th sharp 9", <<0, 0, 0, -1, 1>> >>,
       <<"7th flat 9", <<0, 0, 0, -1, -1>> >>,
       <<"11th", <<0, 0, 0, -1, 0, 0>> >>,
       <<"Minor 11th", <<0, -1, 0, -1, 0, 0>> >>,
       <<"7th sharp 11th", <<0, 0, 0, -1, 0, 1>> >>,
       <<"13th", <<0, 0, 0, -1, 0, 0, 0>> >>,
       <<"Minor 13th", <<0, -1, 0, -1, 0, 0, 0>> >> >>


-----------------------------------------------------------------------------
(* _get_mode_scale *)

ionian_steps == <<2, 2, 1, 2, 2, 2, 1>>

roll_dict == [ionian |-> 0, dorian |-> -1, phrygian |-> -2, lydian |-> -3,
              mixolydian |-> -4, aeolian |-> -5, locrian |-> -6]

\* Mutant of mode_specific_steps: the steps vector rolled the other way.
mode_specific_steps_right(m) == Roll(ionian_steps, -roll_dict[m])

\* np.roll(ionian_steps, roll_dict.get(mode))
mode_specific_steps(m) == Roll(ionian_steps, roll_dict[m])

\* np.insert(np.cumsum(mode_specific_steps)[:-1], 0, 0)
chromatic_positions(m) ==
    LET c == CumSum(mode_specific_steps(m))
    IN  <<0>> \o SubSeq(c, 1, Len(c) - 1)

\* Mutant of _get_mode_scale: the 0 is not inserted in front of the positions.
_get_mode_scale_no_insert(m, chromatic) ==
    LET c == CumSum(mode_specific_steps(m))
    IN  Take(chromatic, SubSeq(c, 1, Len(c) - 1))

_get_mode_scale(m, chromatic) == Take(chromatic, chromatic_positions(m))

-----------------------------------------------------------------------------
(* ChordGenerator.__init__ *)

\* "self.mode is not 'lydian'": an identity test of two str objects.  It is
\* False only when church_mode is the same object as the literal of line 28
\* (an interned literal 'lydian' of the caller); an equal string built at run
\* time is another object, and the test is True for it.
IsNotLydian(m, literal) == ~(m = "lydian" /\ literal)

\* mode_chromatic of line 28, before the roll
ModeChromaticTable(m, literal) ==
    IF IsNotLydian(m, literal) THEN chromatic_flats ELSE chromatic_sharps

\* The object __init__ leaves, or the exception it raises
\* (mode_chromatic.index(self.key) raises ValueError for a key not in the table).
NewChordGenerator(k, m, literal) ==
    LET table == ModeChromaticTable(m, literal)
    IN  IF ~Has(table, k)
        THEN [err |-> "ValueError", mode_chromatic |-> <<>>, mode_scale |-> <<>>]
        ELSE LET rolled == Roll(table, -Index(table, k))
             IN  [err |-> "none",
                  mode_chromatic |-> rolled,
                  mode_scale |-> _get_mode_scale(m, rolled)]

-----------------------------------------------------------------------------
(* _get_chrom_and_major_scale *)

cof_notes_conv_dict ==
    ("A#" :> "Bb") @@ ("D#" :> "Eb") @@ ("G#" :> "Ab") @@ ("E#" :> "F")
    @@ ("Fb" :> "E") @@ ("B#" :> "C") @@ ("Cb" :> "B")

\* line 313
CofNote(note) ==
    IF note \in DOMAIN cof_notes_conv_dict THEN cof_notes_conv_dict[note] ELSE note

\* the note-membership rule of line 316
FlatRootNotes == {"F", "A#", "Bb", "D#", "Eb", "G#", "Ab", "Db", "Gb", "Cb"}

RootChromatic(note) ==
    IF note \in FlatRootNotes THEN chromatic_flats ELSE chromatic_sharps

\* Mutant of special_notes_dict: E# is not converted.
special_notes_dict_short ==
    ("Fb" :> "E") @@ ("B#" :> "C") @@ ("Cb" :> "B")

special_notes_dict ==
    ("E#" :> "F") @@ ("Fb" :> "E") @@ ("B#" :> "C") @@ ("Cb" :> "B")

\* lines 330-331
ConvertMajorScale(scale) ==
    List([i \in 1..Len(scale) |->
            IF scale[i] \in DOMAIN special_notes_dict
            THEN special_notes_dict[scale[i]] ELSE scale[i]])

\* chromatic.index(note) raises ValueError for a note not in the table;
\* major_scale_dict.get(note) is None for an unknown root, and iterating
\* None at line 330 raises TypeError.
_get_chrom_and_major_scale(note0) ==
    LET note == CofNote(note0)
        chromatic == RootChromatic(note)
    IN  IF ~Has(chromatic, note)
        THEN [err |-> "ValueError", rolled_chromatic |-> <<>>, major_scale |-> <<>>]
        ELSE IF note \notin DOMAIN major_scale_dict
        THEN [err |-> "TypeError", rolled_chromatic |-> <<>>, major_scale |-> <<>>]
        ELSE [err |-> "none",
              rolled_chromatic |-> Roll(chromatic, -Index(chromatic, note)),
              major_scale |-> ConvertMajorScale(major_scale_dict[note])]

-----------------------------------------------------------------------------
(* _get_chord_positions *)

\* Mutant of positions_dict: the pattern of size 7 lacks its last position.
positions_dict_short ==
    ("3" :> << <<0, 2, 4>> >>)
    @@ ("4" :> << <<0, 2, 4, 5>>, <<0, 2, 4, 6>>, <<0, 2, 4, 8>> >>)
    @@ ("5" :> << <<0, 2, 4, 5, 8>>, <<0, 2, 4, 6, 8>> >>)
    @@ ("6" :> << <<0, 2, 4, 6, 8, 10>> >>)
    @@ ("7" :> << <<0, 2, 4, 6, 8, 10>> >>)

positions_dict ==
    ("3" :> << <<0, 2, 4>> >>)
    @@ ("4" :> << <<0, 2, 4, 5>>, <<0, 2, 4, 6>>, <<0, 2, 4, 8>> >>)
    @@ ("5" :> << <<0, 2, 4, 5, 8>>, <<0, 2, 4, 6, 8>> >>)
    @@ ("6" :> << <<0, 2, 4, 6, 8, 10>> >>)
    @@ ("7" :> << <<0, 2, 4, 6, 8, 10, 12>> >>)

\* all_positions.extend(positions_dict.get(chord_length)) for each token;
\* extend(None) raises TypeError for a token that is no key of positions_dict.
RECURSIVE ExtendAll(_, _)
ExtendAll(tokens, i) ==
    IF i > Len(tokens) THEN [err |-> "none", all_positions |-> <<>>]
    ELSE IF tokens[i] \notin DOMAIN positions_dict
         THEN [err |-> "TypeError", all_positions |-> <<>>]
         ELSE LET rest == ExtendAll(tokens, i + 1)
              IN  IF rest.err # "none" THEN rest
                  ELSE [err |-> "none",
                        all_positions |-> positions_dict[tokens[i]] \o rest.all_positions]

\* Mutant of _get_chord_positions: a size that is no key of positions_dict is
\* skipped (positions_dict.get(x, [])), so no call fails.
RECURSIVE ExtendKnown(_, _)
ExtendKnown(tokens, i) ==
    IF i > Len(tokens) THEN <<>>
    ELSE (IF tokens[i] \in DOMAIN positions_dict THEN positions_dict[tokens[i]] ELSE <<>>)
         \o ExtendKnown(tokens, i + 1)
_get_chord_positions_skip(cl) ==
    [err |-> "none", all_positions |-> ExtendKnown(Split(cl), 1)]

_get_chord_positions(cl) == ExtendAll(Split(cl), 1)

-----------------------------------------------------------------------------
(* _construct_chord_dict *)

\* The scan of chord_names_dict.items() from entry i on; the result is the
\* one item <<key, notes>> of the returned dict.
RECURSIVE ScanNames(_, _, _, _)
ScanNames(chord_diff_code, mode_chord, chord_positions, i) ==
    LET n == Len(chord_positions)
        note == mode_chord[1]
    IN  IF i > Len(chord_names_dict)
        THEN <<note \o "_" \o "Unknown", mode_chord>>
        ELSE LET name == chord_names_dict[i][1]
                 value == chord_names_dict[i][2]
             IN  IF value = chord_diff_code
                 THEN IF chord_positions[n - 1] + 1 = 6 /\ chord_positions[n] + 1 = 9
                      THEN <<note \o "_" \o "6th added 9", mode_chord>>
                      ELSE IF Len(chord_diff_code) >= 4
                              /\ ~Contains(name, ToString(chord_positions[n] + 1))
                      THEN ScanNames(chord_diff_code, mode_chord, chord_positions, i + 1)
                      ELSE <<note \o "_" \o name, mode_chord>>
                 ELSE ScanNames(chord_diff_code, mode_chord, chord_positions, i + 1)

\* Mutant of _construct_chord_dict: the first entry with the chord's signature
\* names the chord, without the test of the degree number in the name.
_construct_chord_dict_first(chord_diff_code, mode_chord, chord_positions) ==
    LET n == Len(chord_positions)
        note == mode_chord[1]
        hits == {i \in 1..Len(chord_names_dict) : chord_names_dict[i][2] = chord_diff_code}
        first == CHOOSE i \in hits : \A j \in hits : i <= j
    IN  IF hits = {} THEN <<note \o "_" \o "Unknown", mode_chord>>
        ELSE IF chord_positions[n - 1] + 1 = 6 /\ chord_positions[n] + 1 = 9
        THEN <<note \o "_" \o "6th added 9", mode_chord>>
        ELSE <<note \o "_" \o chord_names_dict[first][1], mode_chord>>

\* Mutant of _construct_chord_dict: an unmatched chord is keyed 'Unknown',
\* without the root note.
_construct_chord_dict_noroot(chord_diff_code, mode_chord, chord_positions) ==
    LET item == ScanNames(chord_diff_code, mode_chord, chord_positions, 1)
    IN  IF item[1] = mode_chord[1] \o "_" \o "Unknown"
        THEN <<"Unknown", mode_chord>>
        ELSE item

\* Mutant of _construct_chord_dict: the degree number is looked for in the
\* name only when several entries have the chord's signature.
_construct_chord_dict_several(chord_diff_code, mode_chord, chord_positions) ==
    LET n == Len(chord_positions)
        note == mode_chord[1]
        hits == {i \in 1..Len(chord_names_dict) : chord_names_dict[i][2] = chord_diff_code}
        kept == IF Cardinality(hits) > 1 /\ Len(chord_diff_code) >= 4
                THEN {i \in hits : Contains(chord_names_dict[i][1],
                                            ToString(chord_positions[n] + 1))}
                ELSE hits
        first == CHOOSE i \in kept : \A j \in kept : i <= j
    IN  IF hits # {} /\ chord_positions[n - 1] + 1 = 6 /\ chord_positions[n] + 1 = 9
        THEN <<note \o "_" \o "6th added 9", mode_chord>>
        ELSE IF kept = {} THEN <<note \o "_" \o "Unknown", mode_chord>>
        ELSE <<note \o "_" \o chord_names_dict[first][1], mode_chord>>

_construct_chord_dict(chord_diff_code, mode_chord, chord_positions) ==
    ScanNames(chord_diff_code, mode_chord, chord_positions, 1)

-----------------------------------------------------------------------------
(* ChordGenerator.get_chords *)

\* [seq.index(element) for element in elements]
Positions(seq, elements) ==
    List([i \in 1..Len(elements) |-> Index(seq, elements[i])])

AllIn(seq, elements) == \A i \in 1..Len(elements) : Has(seq, elements[i])

\* Mutant of ModeChord: the chord's notes are not filled up to 7 slots.
ModeChord_nopad(rolled_mode_scale_repeated, chord_positions) ==
    Take(rolled_mode_scale_repeated, chord_positions)

\* lines 128-130: the chord's notes, filled up to 7 slots with ''
ModeChord(rolled_mode_scale_repeated, chord_positions) ==
    LET mode_chord == Take(rolled_mode_scale_repeated, chord_positions)
        nan_tail == [i \in 1..(7 - Len(mode_chord)) |-> ""]
    IN  mode_chord \o nan_tail

\* lines 123-134: the loop over chord_positions_total, from pattern i on
\* (diff is scale_diff_repeated, notes is rolled_mode_scale_repeated)
RECURSIVE PatternLoop(_, _, _, _, _)
PatternLoop(chords, diff, notes, chord_positions_total, i) ==
    IF i > Len(chord_positions_total) THEN chords
    ELSE LET chord_positions == chord_positions_total[i]
             chord_diff == Take(diff, chord_positions)
             mode_chord == ModeChord(notes, chord_positions)
             item == _construct_chord_dict(chord_diff, mode_chord, chord_positions)
         IN  PatternLoop(Update(chords, item[1], item[2]), diff, notes,
                         chord_positions_total, i + 1)

\* Mutant of RolledModeScale: the mode scale rolled the other way.
RolledModeScale_right(scale, note) == Roll(scale, Index(scale, note))

\* line 107: the mode scale rolled so that note comes first
RolledModeScale(scale, note) == Roll(scale, -Index(scale, note))

\* line 108: the mode chromatic rolled so that note comes first
RolledModeChromatic(chromatic, note) == Roll(chromatic, -Index(chromatic, note))

\* Mutant of ScaleDiff: major minus mode.
ScaleDiff_reversed(mode_positions_in_chrom, major_positions_in_chrom) ==
    List([i \in 1..Len(mode_positions_in_chrom) |->
             major_positions_in_chrom[i] - mode_positions_in_chrom[i]])

\* line 115: np.array(mode_positions_in_chrom) - np.array(major_positions_in_chrom)
ScaleDiff(mode_positions_in_chrom, major_positions_in_chrom) ==
    List([i \in 1..Len(mode_positions_in_chrom) |->
             mode_positions_in_chrom[i] - major_positions_in_chrom[i]])

\* lines 104-115: scale_diff of one note of the mode (when no lookup misses)
NoteScaleDiff(scale, chromatic, note) ==
    LET cm == _get_chrom_and_major_scale(note)
        major_positions_in_chrom == Positions(cm.rolled_chromatic, cm.major_scale)
        mode_positions_in_chrom == Positions(RolledModeChromatic(chromatic, note),
                                             RolledModeScale(scale, note))
    IN  ScaleDiff(mode_positions_in_chrom, major_positions_in_chrom)

\* lines 103-134: the body of the loop over the notes of the mode, for one note
NoteStep(chords, scale, chromatic, note, cl) ==
    LET cm == _get_chrom_and_major_scale(note)
        rolled_mode_scale == RolledModeScale(scale, note)
        scale_diff == NoteScaleDiff(scale, chromatic, note)
        scale_diff_repeated == scale_diff \o scale_diff
        rolled_mode_scale_repeated == rolled_mode_scale \o rolled_mode_scale
        chord_positions_total == _get_chord_positions(cl)
    IN  IF cm.err # "none" THEN [err |-> cm.err, chords |-> chords]
        ELSE IF ~Has(chromatic, note) \/ ~AllIn(cm.rolled_chromatic, cm.major_scale)
                \/ ~AllIn(RolledModeChromatic(chromatic, note), rolled_mode_scale)
        THEN [err |-> "ValueError", chords |-> chords]
        ELSE IF chord_positions_total.err # "none"
        THEN [err |-> chord_positions_total.err, chords |-> chords]
        ELSE [err |-> "none",
              chords |-> PatternLoop(chords, scale_diff_repeated,
                                     rolled_mode_scale_repeated,
                                     chord_positions_total.all_positions, 1)]

\* lines 101-134: the loop over enumerate(mode_scale), from note number position on
RECURSIVE NoteLoop(_, _, _, _, _)
NoteLoop(chords, scale, chromatic, cl, position) ==
    IF position > Len(scale) THEN [err |-> "none", chords |-> chords]
    ELSE LET r == NoteStep(chords, scale, chromatic, scale[position], cl)
         IN  IF r.err # "none" THEN r
             ELSE NoteLoop(r.chords, scale, chromatic, cl, position + 1)

\* Mutant of InitialChords: the catalog of the previous call is updated in place.
InitialChords_keep(old) == IF old = None THEN <<>> ELSE old

\* line 100: the catalog is built in a local dict that starts empty, whatever
\* self.chords_dict (old) holds
InitialChords(old) == <<>>

\* The catalog get_chords builds on an object with these fields, or its exception
GetChordsResult(old, scale, chromatic, cl) ==
    NoteLoop(InitialChords(old), scale, chromatic, cl, 1)

-----------------------------------------------------------------------------
(* Inputs *)

Modes == {"ionian", "dorian", "phrygian", "lydian", "mixolydian", "aeolian", "locrian"}

\* every note symbol of the tables: the 12 sharp-spelled and 12 flat-spelled
\* chromatic symbols and the four theoretical spellings
Keys == {chromatic_sharps[i] : i \in 1..12} \cup {chromatic_flats[i] : i \in 1..12}
        \cup {"E#", "Fb", "B#", "Cb"}

\* chord_length arguments: the default '3-4', single sizes, two sizes in both
\* orders, the full list of main.py, a list with an unknown size after a known
\* one, and an unknown size alone
ChordLengths == {"3", "4", "5", "7", "3-4", "4-5", "5-4", "3-4-5-6-7", "3-8", "8"}

-----------------------------------------------------------------------------
(* The state machine *)

\* ChordGenerator(k, m): the state after construction
Init ==
    \E k \in Keys, m \in Modes, literal \in BOOLEAN :
        LET obj == NewChordGenerator(k, m, literal)
        IN  /\ (m # "lydian" => literal)
            /\ constructed = (obj.err = "none")
            /\ key = k
            /\ mode = m
            /\ mode_is_literal = literal
            /\ mode_chromatic = obj.mode_chromatic
            /\ mode_scale = obj.mode_scale
            /\ chords_dict = None
            /\ chord_length = ""
            /\ err = obj.err
            /\ calls = 0

\* chord_generator.get_chords(chord_length = cl)
get_chords(cl) ==
    /\ constructed
    /\ calls < MaxCalls
    /\ \E r \in {GetChordsResult(chords_dict, mode_scale, mode_chromatic, cl)} :
           /\ err' = r.err
           /\ chords_dict' = IF r.err = "none" THEN r.chords ELSE chords_dict
    /\ chord_length' = cl
    /\ calls' = calls + 1
    /\ UNCHANGED <<constructed, key, mode, mode_is_literal, mode_chromatic, mode_scale>>

Next == \E cl \in ChordLengths : get_chords(cl)

Spec == Init /\ [][Next]_vars

-----------------------------------------------------------------------------
(* Vocabulary of the properties *)

\* The most recent call was get_chords(cl) and it returned normally
Done(cl) == constructed /\ calls > 0 /\ err = "none" /\ chord_length = cl

\* The most recent get_chords call returned normally
Returned == constructed /\ calls > 0 /\ err = "none"

\* Pitch position (0-11) of a chromatic note symbol
Pitch(note) ==
    IF Has(chromatic_sharps, note) THEN Index(chromatic_sharps, note)
    ELSE Index(chromatic_flats, note)

\* The rotation offset of each church mode
ModeOffset == [ionian |-> 0, dorian |-> 1, phrygian |-> 2, lydian |-> 3,
               mixolydian |-> 4, aeolian |-> 5, locrian |-> 6]

\* The whole/half step pattern rotated left by k
RotatedSteps(k) ==
    LET steps == <<2, 2, 1, 2, 2, 2, 1>>
    IN  [j \in 1..7 |-> steps[((j - 1 + k) % 7) + 1]]

\* Sum of the first i steps of the pattern rotated left by k
RECURSIVE StepSum(_, _)
StepSum(k, i) == IF i = 0 THEN 0 ELSE StepSum(k, i - 1) + RotatedSteps(k)[i]

\* The scale note p scale steps above degree d (d in 1..7, p a 0-based position)
ScaleNote(d, p) == mode_scale[((d - 1 + p) % 7) + 1]

\* The 7-slot record of degree d and pattern P
ChordRecord(d, P) ==
    [i \in 1..7 |-> IF i <= Len(P) THEN ScaleNote(d, P[i]) ELSE ""]

\* The signature of the chord of degree d and pattern P
ChordDiffOf(d, P) ==
    LET scale_diff == NoteScaleDiff(mode_scale, mode_chromatic, mode_scale[d])
    IN  Take(scale_diff \o scale_diff, P)

\* Quality of the triad on the root of the church mode with offset k
TriadQuality(k) ==
    IF k \in {0, 3, 4} THEN "Major"
    ELSE IF k \in {1, 2, 5} THEN "Minor"
    ELSE "Diminished"

\* The position of the "_" of a catalog key "{root}_{quality}"
UnderscoreAt(k) == CHOOSE i \in 1..Len(k) : SubSeq(k, i, i) = "_"

\* Root and quality of a catalog key
KeyRoot(k) == SubSeq(k, 1, UnderscoreAt(k) - 1)
KeyQuality(k) == SubSeq(k, UnderscoreAt(k) + 1, Len(k))

\* The patterns requested by the most recent call, in enumeration order
Requested == _get_chord_positions(chord_length).all_positions

\* The item the classifier returns for degree d and pattern P
ItemOf(d, P) == _construct_chord_dict(ChordDiffOf(d, P), ChordRecord(d, P), P)

\* The items of the enumeration in the order degree-major, pattern-minor:
\* visit t (1-based) is degree ((t-1) \div n) + 1 with pattern ((t-1) % n) + 1
VisitItems ==
    LET n == Len(Requested)
    IN  List([t \in 1..(7 * n) |->
                 ItemOf(((t - 1) \div n) + 1, Requested[((t - 1) % n) + 1])])

-----------------------------------------------------------------------------
(* Properties *)

\* C1: for every mode and every key of the chromatic table chosen for the
\* mode, the constructor builds a scale of exactly 7 notes whose first note
\* is the key and whose notes have pairwise different pitch positions.
C1_ScaleWellFormed ==
    /\ constructed <=> Has(ModeChromaticTable(mode, mode_is_literal), key)
    /\ constructed =>
          /\ Len(mode_scale) = 7
          /\ mode_scale[1] = key
          /\ \A i, j \in 1..Len(mode_scale) :
                i # j => Pitch(mode_scale[i]) # Pitch(mode_scale[j])

C1_Witness ==
    constructed /\ mode = "lydian" /\ mode_is_literal /\ key = "F#"
    /\ Len(mode_scale) = 7

\* C2: the i-th scale note (i = 0..6) is the note of the key-rooted chromatic
\* sequence at the sum of the first i steps of [2,2,1,2,2,2,1] rotated left
\* by the mode's offset; the offsets start at 0, increase strictly and lie
\* in 0..11; ionian on C is exactly C D E F G A B.
C2_ScaleOffsets ==
    constructed =>
        LET k == ModeOffset[mode]
            table == ModeChromaticTable(mode, mode_is_literal)
        IN  /\ Len(mode_chromatic) = 12
            /\ mode_chromatic[1] = key
            /\ \A j \in 1..12 :
                  mode_chromatic[j] = table[((j - 1 + Index(table, key)) % 12) + 1]
            /\ Len(mode_scale) = 7
            /\ \A i \in 0..6 :
                  /\ StepSum(k, i) \in 0..11
                  /\ (i = 0 => StepSum(k, i) = 0)
                  /\ (i > 0 => StepSum(k, i) > StepSum(k, i - 1))
                  /\ mode_scale[i + 1] = mode_chromatic[StepSum(k, i) + 1]
            /\ (mode = "ionian" /\ key = "C"
                   => mode_scale = <<"C", "D", "E", "F", "G", "A", "B">>)

C2_Witness ==
    constructed /\ mode = "dorian" /\ key = "Eb"
    /\ mode_scale = <<"Eb", "F", "Gb", "Ab", "Bb", "C", "Db">>

\* C3: after get_chords('3') the catalog holds, for each scale degree, the
\* triad named by the church mode rooted at that degree (Major for ionian,
\* lydian, mixolydian; Minor for dorian, phrygian, aeolian; Diminished for
\* locrian) and nothing else; dorian on C holds C_Minor = C, Eb, G.
C3_TriadNames ==
    Done("3") =>
        LET k == ModeOffset[mode]
            name(d) == mode_scale[d] \o "_" \o TriadQuality((k + d - 1) % 7)
        IN  /\ DOMAIN chords_dict = {name(d) : d \in 1..7}
            /\ \A d \in 1..7 : chords_dict[name(d)] = ChordRecord(d, <<0, 2, 4>>)
            /\ (mode = "dorian" /\ key = "C"
                   => chords_dict["C_Minor"] = <<"C", "Eb", "G", "", "", "", "">>)

C3_Witness ==
    Done("3") /\ mode = "dorian" /\ key = "C" /\ "C_Minor" \in DOMAIN chords_dict

\* C4 as stated: lydian on C with size 3 holds C_Major = C, E, G and the
\* entry rooted at the 4th scale degree has the augmented signature [0,0,1]
\* (quality Augmented).
C4_Original ==
    (Done("3") /\ mode = "lydian" /\ key = "C") =>
        /\ "C_Major" \in DOMAIN chords_dict
        /\ chords_dict["C_Major"] = <<"C", "E", "G", "", "", "", "">>
        /\ ChordDiffOf(4, <<0, 2, 4>>) = <<0, 0, 1>>
        /\ (mode_scale[4] \o "_Augmented") \in DOMAIN chords_dict

\* C4 amended: lydian on C with size 3 holds C_Major = C, E, G and the entry
\* rooted at the 4th scale degree has the diminished signature [0,-1,-1]
\* (quality Diminished).
C4_Amended ==
    (Done("3") /\ mode = "lydian" /\ key = "C") =>
        /\ "C_Major" \in DOMAIN chords_dict
        /\ chords_dict["C_Major"] = <<"C", "E", "G", "", "", "", "">>
        /\ ChordDiffOf(4, <<0, 2, 4>>) = <<0, -1, -1>>
        /\ (mode_scale[4] \o "_Diminished") \in DOMAIN chords_dict
        /\ chords_dict[mode_scale[4] \o "_Diminished"] = ChordRecord(4, <<0, 2, 4>>)

C4_Witness ==
    Done("3") /\ mode = "lydian" /\ key = "C" /\ mode_is_literal
    /\ "F#_Diminished" \in DOMAIN chords_dict

\* C5: after get_chords('4') every entry whose quality is not Unknown has a
\* quality name that contains the 1-indexed degree number (6, 7 or 9) of the
\* last position of the pattern its notes come from; '6th' is stored only
\* for [0,2,4,5], 'Major 7th' only for [0,2,4,6], 'Added 9th' only for
\* [0,2,4,8].
C5_DegreeNumberInName ==
    Done("4") =>
        \A k \in DOMAIN chords_dict :
            /\ \E d \in 1..7, P \in {<<0, 2, 4, 5>>, <<0, 2, 4, 6>>, <<0, 2, 4, 8>>} :
                  chords_dict[k] = ChordRecord(d, P)
            /\ \A d \in 1..7, P \in {<<0, 2, 4, 5>>, <<0, 2, 4, 6>>, <<0, 2, 4, 8>>} :
                  chords_dict[k] = ChordRecord(d, P) =>
                     /\ KeyQuality(k) # "Unknown"
                           => Contains(KeyQuality(k), ToString(P[4] + 1))
                     /\ KeyQuality(k) = "6th" => P = <<0, 2, 4, 5>>
                     /\ KeyQuality(k) = "Major 7th" => P = <<0, 2, 4, 6>>
                     /\ KeyQuality(k) = "Added 9th" => P = <<0, 2, 4, 8>>

C5_Witness ==
    Done("4") /\ mode = "ionian" /\ key = "C"
    /\ {"C_6th", "C_Major 7th", "C_Added 9th"} \subseteq DOMAIN chords_dict

\* C6 as stated: after get_chords('5') the chord of every root on the
\* pattern [0,2,4,5,8] (6th and 9th degrees last) is stored with the quality
\* '6th added 9', whether or not its signature is in the table.
C6_ForcedSixNine ==
    (Done("5") /\ mode_is_literal) =>
        \A d \in 1..7 :
            /\ (mode_scale[d] \o "_6th added 9") \in DOMAIN chords_dict
            /\ chords_dict[mode_scale[d] \o "_6th added 9"]
                  = ChordRecord(d, <<0, 2, 4, 5, 8>>)

\* C7: every value of the catalog is a record of exactly 7 slots that comes
\* from one scale degree d and one requested pattern P: the first |P| slots
\* hold the scale notes at (d + P[i]) mod 7 and the other slots hold '';
\* so every non-empty note of every chord is a note of the mode's scale.
C7_SevenSlotRecords ==
    Returned =>
        \A k \in DOMAIN chords_dict :
            /\ Len(chords_dict[k]) = 7
            /\ \E d \in 1..7, i \in 1..Len(Requested) :
                  chords_dict[k] = ChordRecord(d, Requested[i])
            /\ \A i \in 1..7 :
                  chords_dict[k][i] = "" \/ Has(mode_scale, chords_dict[k][i])

C7_Witness ==
    /\ Done("3-4-5-6-7")
    /\ \E k \in DOMAIN chords_dict : chords_dict[k][3] # "" /\ chords_dict[k][4] = ""
    /\ \E k \in DOMAIN chords_dict : chords_dict[k][7] # ""

\* C8: after get_chords('7') the catalog has exactly 7 entries, one rooted
\* at each scale degree, and each value is a full stack of 7 non-empty notes
\* that holds every scale note once.
C8_FullStacks ==
    Done("7") =>
        /\ Cardinality(DOMAIN chords_dict) = 7
        /\ \A d \in 1..7 :
              Cardinality({k \in DOMAIN chords_dict : KeyRoot(k) = mode_scale[d]}) = 1
        /\ \A k \in DOMAIN chords_dict :
              /\ chords_dict[k][1] = KeyRoot(k)
              /\ Len(chords_dict[k]) = 7
              /\ \A i \in 1..7 : chords_dict[k][i] # ""
              /\ \A d \in 1..7 :
                    Cardinality({i \in 1..7 : chords_dict[k][i] = mode_scale[d]}) = 1

C8_Witness ==
    Done("7") /\ mode = "locrian" /\ key = "B"
    /\ Cardinality(DOMAIN chords_dict) = 7

\* C9: after any sequence of get_chords calls of which the last returned
\* normally, chords_dict is the catalog one call with the last chord_length
\* builds on a fresh generator of the same key and mode: nothing of earlier
\* calls survives, and a repeated call gives the same catalog.
C9_RebuiltFromScratch ==
    Returned =>
        LET fresh == NewChordGenerator(key, mode, mode_is_literal)
        IN  chords_dict =
               GetChordsResult(None, fresh.mode_scale, fresh.mode_chromatic,
                               chord_length).chords

C9_Witness ==
    Done("3") /\ calls = 2 /\ Cardinality(DOMAIN chords_dict) = 7

\* C10: the catalog is what the visits in the order degree-major,
\* pattern-minor (patterns in the order of the requested sizes) leave when
\* each visit writes its item and a later visit overwrites an earlier one
\* with the same key: one entry per distinct key, holding the notes of the
\* last visit with that key, at most 7 entries per requested pattern.
C10_LastWriteWins ==
    Returned =>
        \A items \in {VisitItems} :
            /\ DOMAIN chords_dict = {items[t][1] : t \in 1..Len(items)}
            /\ \A t \in 1..Len(items) :
                  (\A u \in (t + 1)..Len(items) : items[u][1] # items[t][1])
                     => chords_dict[items[t][1]] = items[t][2]
            /\ Cardinality(DOMAIN chords_dict) <= 7 * Len(Requested)

C10_Witness ==
    /\ Done("4-5")
    /\ Cardinality(DOMAIN chords_dict) < 7 * Len(Requested)
    /\ \E d \in 1..7 :
          /\ ItemOf(d, <<0, 2, 4, 8>>)[1] = ItemOf(d, <<0, 2, 4, 5, 8>>)[1]
          /\ chords_dict[ItemOf(d, <<0, 2, 4, 8>>)[1]] = ChordRecord(d, <<0, 2, 4, 5, 8>>)

\* The sizes the size table knows, and whether every size of chord_length is one
KnownSizes == {"3", "4", "5", "6", "7"}
ValidLength(cl) == \A i \in 1..Len(Split(cl)) : Split(cl)[i] \in KnownSizes

\* The table entries that accept a chord of signature sig and pattern P: the
\* entry's signature equals sig and, for 4 or more tones, its name contains
\* the degree number of the last position
SameSignature(sig) ==
    {i \in 1..Len(chord_names_dict) : chord_names_dict[i][2] = sig}
Accepting(sig, P) ==
    {i \in SameSignature(sig) :
        Len(sig) >= 4 => Contains(chord_names_dict[i][1], ToString(P[Len(P)] + 1))}

\* The last two positions of P are the 6th and the 9th
SixNine(P) == P[Len(P) - 1] + 1 = 6 /\ P[Len(P)] + 1 = 9

\* No table entry names the chord of degree d and pattern P
Unmatched(d, P) ==
    LET sig == ChordDiffOf(d, P)
    IN  IF SixNine(P) THEN SameSignature(sig) = {} ELSE Accepting(sig, P) = {}

\* C11 as stated: a get_chords call with known sizes returns normally, and
\* every (degree, requested pattern) pair has a catalog entry that holds the
\* pair's notes, for an unmatched chord the entry '{root}_Unknown'.
C11_Original ==
    (constructed /\ calls > 0 /\ ValidLength(chord_length)) =>
        /\ err = "none"
        /\ \A d \in 1..7 : \A i \in 1..Len(Requested) :
               \E k \in DOMAIN chords_dict :
                   /\ chords_dict[k] = ChordRecord(d, Requested[i])
                   /\ Unmatched(d, Requested[i]) => k = mode_scale[d] \o "_Unknown"

\* C11 amended: a get_chords call with known sizes returns normally; the
\* classifier's item for an unmatched chord is keyed '{root}_Unknown' and
\* holds the chord's notes; the key of every (degree, requested pattern) pair
\* is a key of the catalog, and the entry under it holds the notes of the pair
\* itself or of a pair enumerated later whose item has the same key.
C11_Amended ==
    (constructed /\ calls > 0 /\ ValidLength(chord_length)) =>
        /\ err = "none"
        /\ \A items \in {VisitItems} : \A t \in 1..Len(items) :
               LET n == Len(Requested)
                   d == ((t - 1) \div n) + 1
                   P == Requested[((t - 1) % n) + 1]
               IN  /\ Unmatched(d, P) =>
                          items[t] = <<mode_scale[d] \o "_Unknown", ChordRecord(d, P)>>
                   /\ items[t][1] \in DOMAIN chords_dict
                   /\ \E u \in t..Len(items) :
                          /\ items[u][1] = items[t][1]
                          /\ chords_dict[items[t][1]] = items[u][2]

\* An unmatched chord is in the catalog under '{root}_Unknown' with its own
\* notes while another unmatched chord of the same root was overwritten: C
\* ionian, size 4, root E (E-G-B-C gave way to E-G-B-F).
C11_Witness ==
    /\ Done("4") /\ key = "C" /\ mode = "ionian"
    /\ Unmatched(3, Requested[1]) /\ Unmatched(3, Requested[3])
    /\ "E_Unknown" \in DOMAIN chords_dict
    /\ chords_dict["E_Unknown"] = ChordRecord(3, Requested[3])
    /\ chords_dict["E_Unknown"] # ChordRecord(3, Requested[1])

\* The chromatic sequence meant for a mode: sharp-spelled for lydian,
\* flat-spelled for every other mode
IntendedChromatic(m) == IF m = "lydian" THEN chromatic_sharps ELSE chromatic_flats

\* C12: a constructor call whose key is not in the chromatic sequence meant
\* for the mode raises and leaves no scale, and a constructed scale starts on
\* the key as it was spelled.
C12_InvalidKeyRejected ==
    /\ ~Has(IntendedChromatic(mode), key) =>
           ~constructed /\ err = "ValueError" /\ mode_scale = <<>>
    /\ constructed => mode_scale[1] = key

\* C13: a get_chords call whose chord_length names a size outside 3..7 ends
\* in an error and leaves chords_dict as it was before the call.
C13_NoPartialCatalog ==
    [][~ValidLength(chord_length') => (err' # "none" /\ chords_dict' = chords_dict)]_vars

\* get_chords('3-8') has failed after a successful call, and the catalog of
\* that call is still there.
C13_Witness ==
    /\ constructed /\ calls = 2 /\ chord_length = "3-8" /\ err = "TypeError"
    /\ chords_dict # None
    /\ mode_scale[1] \o "_" \o TriadQuality(ModeOffset[mode]) \in DOMAIN chords_dict

\* The name of the first entry (in table order) of a set of table entries,
\* Unknown for the empty set
FirstName(entries) ==
    IF entries = {} THEN "Unknown"
    ELSE chord_names_dict[CHOOSE i \in entries : \A j \in entries : i <= j][1]

\* The ordered rule list as stated: the 6-and-9 case first, then the entries
\* with the chord's signature, filtered by the degree number only if there are
\* several and the chord has 4 or more tones
StatedRuleList(sig, P) ==
    IF SixNine(P) THEN "6th added 9"
    ELSE FirstName(IF Cardinality(SameSignature(sig)) > 1 /\ Len(sig) >= 4
                   THEN Accepting(sig, P)
                   ELSE SameSignature(sig))

\* The ordered rule list amended: Unknown if no entry has the chord's
\* signature, then the 6-and-9 case, then the entries with the signature,
\* filtered by the degree number whenever the chord has 4 or more tones
AmendedRuleList(sig, P) ==
    IF SameSignature(sig) = {} THEN "Unknown"
    ELSE IF SixNine(P) THEN "6th added 9"
    ELSE FirstName(Accepting(sig, P))

\* C14 as stated: the quality of every item the classifier returns during a
\* call is the result of the stated rule list.
C14_Original ==
    Returned =>
        \A items \in {VisitItems} : \A t \in 1..Len(items) :
            LET n == Len(Requested)
                d == ((t - 1) \div n) + 1
                P == Requested[((t - 1) % n) + 1]
            IN  items[t][1] = mode_scale[d] \o "_" \o StatedRuleList(ChordDiffOf(d, P), P)

\* C14 amended: the quality of every item the classifier returns during a
\* call is the result of the amended rule list, in which the degree-number
\* filter applies to every chord of 4 or more tones, also when one entry
\* only has its signature, and the 6-and-9 case needs an entry with the
\* chord's signature.
C14_Amended ==
    Returned =>
        \A items \in {VisitItems} : \A t \in 1..Len(items) :
            LET n == Len(Requested)
                d == ((t - 1) \div n) + 1
                P == Requested[((t - 1) % n) + 1]
            IN  items[t][1] = mode_scale[d] \o "_" \o AmendedRuleList(ChordDiffOf(d, P), P)

\* A chord of 4 tones whose signature equals exactly one table entry
\* ('Minor 7th') and is stored as Unknown, the entry's name not containing the
\* degree number 9: C ionian, size 4, E-G-B-F.
C14_Witness ==
    /\ Done("4") /\ key = "C" /\ mode = "ionian"
    /\ Cardinality(SameSignature(ChordDiffOf(3, Requested[3]))) = 1
    /\ FirstName(SameSignature(ChordDiffOf(3, Requested[3]))) = "Minor 7th"
    /\ AmendedRuleList(ChordDiffOf(3, Requested[3]), Requested[3]) = "Unknown"
    /\ chords_dict["E_Unknown"] = ChordRecord(3, Requested[3])

\* The 12 sharp-spelled and 12 flat-spelled chromatic symbols
ChromaticNotes ==
    {chromatic_sharps[i] : i \in 1..12} \cup {chromatic_flats[i] : i \in 1..12}

\* The lookups of _get_chrom_and_major_scale for one note all hit, and the
\* major scale lies on the positions 0, 2, 4, 5, 7, 9, 11 of the rotated
\* chromatic sequence
LookupsHit(note0) ==
    LET note == CofNote(note0)
        cm == _get_chrom_and_major_scale(note0)
    IN  /\ Has(RootChromatic(note), note)
        /\ note \in DOMAIN major_scale_dict
        /\ cm.err = "none"
        /\ cm.rolled_chromatic[1] = note
        /\ AllIn(cm.rolled_chromatic, cm.major_scale)
        /\ Positions(cm.rolled_chromatic, cm.major_scale) = <<0, 2, 4, 5, 7, 9, 11>>

\* The lookups hit for each of the chromatic symbols
EveryLookupHits == \A note \in ChromaticNotes : LookupsHit(note)

\* C15: the lookups of _get_chrom_and_major_scale hit for every chromatic
\* symbol, every note of a constructed scale is such a symbol (and is found in
\* the generator's own chromatic sequence), and so a get_chords call with
\* known sizes on a constructed generator returns normally.
C15_LookupsNeverMiss ==
    /\ EveryLookupHits
    /\ constructed =>
           \A d \in 1..7 : /\ mode_scale[d] \in ChromaticNotes
                           /\ Has(mode_chromatic, mode_scale[d])
                           /\ LookupsHit(mode_scale[d])
    /\ (constructed /\ calls > 0 /\ ValidLength(chord_length)) => err = "none"

\* get_chords('3') has returned for the scale of C# lydian, whose notes A# and
\* D# are normalized to Bb and Eb and whose root C# has the major scale with
\* E# and B# converted to F and C.
C15_Witness ==
    /\ Done("3") /\ key = "C#" /\ mode = "lydian"
    /\ Has(mode_scale, "A#") /\ CofNote("A#") = "Bb"
    /\ _get_chrom_and_major_scale("C#").major_scale
           = <<"C#", "D#", "F", "F#", "G#", "A#", "C">>
    /\ "C#_Major" \in DOMAIN chords_dict

\* Every pattern of the size table, and every signature of the quality table
SupportedPatterns ==
    UNION {{positions_dict[size][i] : i \in 1..Len(positions_dict[size])} :
              size \in DOMAIN positions_dict}
TableSignatures == {chord_names_dict[i][2] : i \in 1..Len(chord_names_dict)}

\* The qualities a scan of the table can return for signature sig and pattern
\* P, over all orders of the table: the scan returns at the first entry it
\* meets that has the signature and, for 4 or more tones, the degree number
\* in its name (at the first with the signature for the 6th-and-9th pattern)
ScanOutcomes(sig, P) ==
    IF SameSignature(sig) = {} THEN {"Unknown"}
    ELSE IF SixNine(P) THEN {"6th added 9"}
    ELSE IF Accepting(sig, P) = {} THEN {"Unknown"}
    ELSE {chord_names_dict[i][1] : i \in Accepting(sig, P)}

\* At most one entry of the table has a given signature and passes the
\* degree-number test of a supported pattern of the signature's length
TableUnambiguous ==
    \A P \in SupportedPatterns : \A sig \in TableSignatures :
        Len(sig) = Len(P) => Cardinality(Accepting(sig, P)) <= 1

\* C16: for every signature of the table and every supported pattern of its
\* length at most one entry has the signature and passes the degree-number
\* test; the same holds for the signature of every chord a call classifies,
\* and the quality the classifier returned is the only one a scan of the
\* table in any order can return.
C16_OrderIndependent ==
    /\ TableUnambiguous
    /\ Returned =>
           \A items \in {VisitItems} : \A t \in 1..Len(items) :
               LET n == Len(Requested)
                   d == ((t - 1) \div n) + 1
                   P == Requested[((t - 1) % n) + 1]
                   sig == ChordDiffOf(d, P)
               IN  /\ Cardinality(Accepting(sig, P)) <= 1
                   /\ ScanOutcomes(sig, P) = {KeyQuality(items[t][1])}

\* Three entries share the signature [0,0,0,0] of the chords on C in C
\* ionian, and each of the three patterns of size 4 is named by the one entry
\* that has its degree number.
C16_Witness ==
    /\ Done("4") /\ key = "C" /\ mode = "ionian"
    /\ Cardinality(SameSignature(ChordDiffOf(1, Requested[1]))) = 3
    /\ \A i \in 1..3 : Cardinality(Accepting(ChordDiffOf(1, Requested[i]), Requested[i])) = 1
    /\ {"C_6th", "C_Major 7th", "C_Added 9th"} \subseteq DOMAIN chords_dict

=============================================================================
